---- MODULE Spec2Model ----
(***************************************************************************)
(* A model of browser.py: URL parsing (class URL), the HTTP/1.1 exchange   *)
(* of HttpClient.fetch over a keep-alive socket, and the host:port client  *)
(* cache of Browser.                                                       *)
(*                                                                         *)
(* Text is modelled as a sequence of units.  A unit is either one of the   *)
(* characters the code looks at (":", "/", " ", "\r", "\n", a digit, "-")  *)
(* or a word: a maximal run of other characters ("http", "a.com",          *)
(* "Content-Length"), which stands for one unit of the stream.             *)
(***************************************************************************)
EXTENDS Integers, Sequences, FiniteSets, TLC

VARIABLES
    raw,        \* Browser.load: the url_string argument of the latest load
    parsed,     \* Browser.load: url = URL(url_string), or the error it raised
    clients,    \* Browser.clients: key -> HttpClient (url, socket, response)
    net,        \* every socket ever created: endpoint, TLS, state, unread stream
    pc,         \* "idle", or "fetch" while a client.fetch() call is running
    cur,        \* the key of the client whose fetch() or close() ran last
    hops,       \* recursion depth of the running fetch() (redirects followed)
    outcome,    \* how the latest load ended: returned body or raised error
    hist,       \* observations of the latest fetch() invocation
    requests,   \* number of fetch() invocations so far
    browser,    \* the Browser instance whose load() ran last
    creator     \* key -> the Browser instance whose load() stored clients[key]

vars == <<raw, parsed, clients, net, pc, cur, hops, outcome, hist, requests,
          browser, creator>>

----------------------------------------------------------------------------
(* Bounds of the model *)

MaxRest == 4        \* units after the scheme part in the inputs of URL()
MaxRequests == 3    \* invocations of fetch() in one run
MaxCut == 2         \* bytes a server may leave unsent at the end of a response
MaxChunks == 3      \* chunks before the zero-size chunk of a chunked body

----------------------------------------------------------------------------
(* Python str helpers *)

\* s.startswith(p)
StartsWith(s, p) == Len(s) >= Len(p) /\ SubSeq(s, 1, Len(p)) = p

\* the least element of a set of positions; 0 when it is empty
FirstOf(hits) == IF hits = {} THEN 0 ELSE CHOOSE i \in hits : \A j \in hits : i <= j

\* the greatest element of a non-empty set of positions
LastOf(hits) == CHOOSE i \in hits : \A j \in hits : i >= j

\* 1-based s.find(p); 0 when p does not occur
Find(s, p) ==
    FirstOf({i \in 1..(Len(s) - Len(p) + 1) : SubSeq(s, i, i + Len(p) - 1) = p})

\* p in s
Contains(s, p) == Find(s, p) # 0

\* s.split(p, 1) when s.find(p) is i
Split1At(s, p, i) ==
    IF i = 0 THEN <<s>>
    ELSE <<SubSeq(s, 1, i - 1), SubSeq(s, i + Len(p), Len(s))>>

\* s.split(p, 1): a list of one or two parts
Split1(s, p) == Split1At(s, p, Find(s, p))

\* s.split(p, 2) when s.split(p, 1) is a
Split2Of(a, p) == IF Len(a) = 1 THEN a ELSE <<a[1]>> \o Split1(a[2], p)

\* s.split(p, 2): a list of one, two or three parts
Split2(s, p) == Split2Of(Split1(s, p), p)

Whitespace == {" ", "\t", "\n", "\r"}

\* s.strip() when keep are the positions of s that hold no whitespace
StripTo(s, keep) == IF keep = {} THEN <<>> ELSE SubSeq(s, FirstOf(keep), LastOf(keep))

\* s.strip()
Strip(s) == StripTo(s, {i \in 1..Len(s) : s[i] \notin Whitespace})

DigitVal ==
    [d \in {"0", "1", "2", "3", "4", "5", "6", "7", "8", "9",
            "a", "b", "c", "d", "e", "f", "A", "B", "C", "D", "E", "F"} |->
        CASE d = "0" -> 0 [] d = "1" -> 1 [] d = "2" -> 2 [] d = "3" -> 3
          [] d = "4" -> 4 [] d = "5" -> 5 [] d = "6" -> 6 [] d = "7" -> 7
          [] d = "8" -> 8 [] d = "9" -> 9
          [] d \in {"a", "A"} -> 10 [] d \in {"b", "B"} -> 11
          [] d \in {"c", "C"} -> 12 [] d \in {"d", "D"} -> 13
          [] d \in {"e", "E"} -> 14 [] d \in {"f", "F"} -> 15]

\* the value of a digit string in a base
RECURSIVE DigitsValue(_, _)
DigitsValue(s, base) ==
    IF s = <<>> THEN 0
    ELSE DigitsValue(SubSeq(s, 1, Len(s) - 1), base) * base + DigitVal[s[Len(s)]]

IsDigits(u, base) ==
    u # <<>> /\ \A i \in 1..Len(u) : u[i] \in DOMAIN DigitVal /\ DigitVal[u[i]] < base

Signed(neg, v) == [ok |-> TRUE, val |-> IF neg THEN 0 - v ELSE v]

\* int() of a string without surrounding whitespace
PyIntStripped(t, base) ==
    IF t # <<>> /\ t[1] \in {"-", "+"}
    THEN IF IsDigits(Tail(t), base)
         THEN Signed(t[1] = "-", DigitsValue(Tail(t), base))
         ELSE [ok |-> FALSE, val |-> 0]
    ELSE IF IsDigits(t, base) THEN Signed(FALSE, DigitsValue(t, base))
    ELSE [ok |-> FALSE, val |-> 0]

\* int(s, base): surrounding whitespace and one sign are accepted; anything
\* else than digits of the base raises ValueError (ok = FALSE)
PyInt(s, base) == PyIntStripped(Strip(s), base)

DecDigits == <<"0", "1", "2", "3", "4", "5", "6", "7", "8", "9">>

\* str(n) for an integer n >= 0: its decimal digits
RECURSIVE DecStr(_)
DecStr(n) ==
    IF n < 10 THEN <<DecDigits[n + 1]>>
    ELSE DecStr(n \div 10) \o <<DecDigits[(n % 10) + 1]>>

----------------------------------------------------------------------------
(* The byte stream of a socket, as socket.makefile("rb") reads it *)

CRLF == <<"\r", "\n">>

InvalidByte == "\\xff"      \* a byte that is not valid UTF-8
LeadByte == "\\xc3"         \* the first byte of a two-byte UTF-8 sequence
ContByte == "\\xa9"         \* its continuation byte
TwoByteChar == "\\u00e9"    \* the character the two bytes encode
Replacement == "\\ufffd"    \* what errors="replace" decodes an invalid byte to

\* bytes.decode("utf-8", errors="replace"): a lead byte and its continuation
\* give one character; an invalid byte, a lead byte without continuation and
\* a continuation without lead give the replacement character
RECURSIVE DecodeReplace(_)
DecodeReplace(b) ==
    IF b = <<>> THEN <<>>
    ELSE IF Len(b) >= 2 /\ b[1] = LeadByte /\ b[2] = ContByte
    THEN <<TwoByteChar>> \o DecodeReplace(SubSeq(b, 3, Len(b)))
    ELSE IF b[1] \in {InvalidByte, LeadByte, ContByte}
    THEN <<Replacement>> \o DecodeReplace(Tail(b))
    ELSE <<b[1]>> \o DecodeReplace(Tail(b))

\* the positions of a decoded text that hold the replacement character
Replaced(t) == {i \in 1..Len(t) : t[i] = Replacement}

\* bytes.decode("utf-8"): raises UnicodeDecodeError where errors="replace"
\* would replace
DecodeOk(b) == Replaced(DecodeReplace(b)) = {}

\* bytes.decode("utf-8") of bytes it accepts
Decode(b) == DecodeReplace(b)

\* str.casefold() of one unit
CasefoldUnit(u) ==
    CASE u \in {"Content-Length", "CONTENT-LENGTH"} -> "content-length"
      [] u \in {"Transfer-Encoding", "TRANSFER-ENCODING"} -> "transfer-encoding"
      [] u \in {"Content-Encoding", "CONTENT-ENCODING"} -> "content-encoding"
      [] u \in {"Location", "LOCATION"} -> "location"
      [] OTHER -> u

\* str.casefold()
Casefold(s) == [i \in 1..Len(s) |-> CasefoldUnit(s[i])]

\* a read that needs more than the stream holds: at "eof" (the server closed
\* the connection) it returns what is there; on an "open" connection it
\* blocks until the socket timeout of line 154 raises
ReadShort(buf, peer) ==
    IF peer = "eof" THEN [buf |-> <<>>, st |-> "ok", data |-> buf]
    ELSE [buf |-> <<>>, st |-> "timeout", data |-> <<>>]

\* response.readline() when the first "\n" of the stream is at i
ReadLineAt(buf, peer, i) ==
    IF i # 0
    THEN [buf |-> SubSeq(buf, i + 1, Len(buf)), st |-> "ok", data |-> SubSeq(buf, 1, i)]
    ELSE ReadShort(buf, peer)

\* response.readline()
ReadLine(buf, peer) == ReadLineAt(buf, peer, Find(buf, <<"\n">>))

\* response.read(n): n bytes, fewer at end of input; all of it when n < 0
Read(buf, peer, n) ==
    IF n >= 0 /\ Len(buf) >= n
    THEN [buf |-> SubSeq(buf, n + 1, Len(buf)), st |-> "ok", data |-> SubSeq(buf, 1, n)]
    ELSE ReadShort(buf, peer)

----------------------------------------------------------------------------
(* class HttpClient: parsing one response *)

StatusLineError(e, buf) ==
    [buf |-> buf, st |-> e, version |-> <<>>, status |-> <<>>, explanation |-> <<>>]

\* line 102: version, status, explanation = status_line.split(" ", 2)
StatusLineParts(parts, buf) ==
    IF Len(parts) # 3 THEN StatusLineError("ValueError", buf)
    ELSE [buf |-> buf, st |-> "ok", version |-> parts[1], status |-> parts[2],
          explanation |-> Strip(parts[3])]

\* lines 101-103, r being what response.readline() gave
StatusLineOf(r) ==
    IF r.st # "ok" THEN StatusLineError(r.st, r.buf)
    ELSE IF ~DecodeOk(r.data) THEN StatusLineError("UnicodeDecodeError", r.buf)
    ELSE StatusLineParts(Split2(Strip(Decode(r.data)), <<" ">>), r.buf)

\* HttpClient._parse_status_line
ParseStatusLine(buf, peer) == StatusLineOf(ReadLine(buf, peer))

\* line 113 keeping the first value stored under a key
SetItemFirst(d, key, value) ==
    [k \in DOMAIN d \cup {key} |-> IF k \in DOMAIN d THEN d[k] ELSE value]

\* d[key] = value
SetItem(d, key, value) ==
    [k \in DOMAIN d \cup {key} |-> IF k = key THEN value ELSE d[k]]

NoHeaders == [k \in {} |-> <<>>]

RECURSIVE ParseHeadersFrom(_, _, _)

\* lines 112-113: header, value = line.split(":", 1), and the next turn
HeaderParts(peer, headers, parts, buf) ==
    IF Len(parts) # 2 THEN [buf |-> buf, st |-> "ValueError", headers |-> headers]
    ELSE ParseHeadersFrom(buf, peer, SetItem(headers, Casefold(parts[1]), Strip(parts[2])))

\* lines 109-113, r being what response.readline() gave
HeaderLine(peer, headers, r) ==
    IF r.st # "ok" THEN [buf |-> r.buf, st |-> r.st, headers |-> headers]
    ELSE IF ~DecodeOk(r.data)
    THEN [buf |-> r.buf, st |-> "UnicodeDecodeError", headers |-> headers]
    ELSE IF Decode(r.data) = CRLF THEN [buf |-> r.buf, st |-> "ok", headers |-> headers]
    ELSE HeaderParts(peer, headers, Split1(Decode(r.data), <<":">>), r.buf)

\* HttpClient._parse_headers: the loop, entered with the headers read so far
ParseHeadersFrom(buf, peer, headers) == HeaderLine(peer, headers, ReadLine(buf, peer))

\* HttpClient._parse_headers
ParseHeaders(buf, peer) == ParseHeadersFrom(buf, peer, NoHeaders)

RECURSIVE ReadChunkedFrom(_, _, _, _)

\* line 142: response.readline() after a chunk, and the next turn
ChunkEnd(peer, body, nread, tail) ==
    IF tail.st # "ok"
    THEN [buf |-> tail.buf, st |-> tail.st, body |-> body, nread |-> nread]
    ELSE ReadChunkedFrom(tail.buf, peer, body, nread)

\* lines 140-142, chunk being what response.read(size) gave
ChunkData(peer, body, nread, chunk) ==
    IF chunk.st # "ok"
    THEN [buf |-> chunk.buf, st |-> chunk.st, body |-> body, nread |-> nread]
    ELSE ChunkEnd(peer, body \o DecodeReplace(chunk.data), nread + Len(chunk.data),
                  ReadLine(chunk.buf, peer))

\* lines 135-142, size being int(size_line, 16)
ChunkSize(peer, body, nread, size, buf) ==
    IF ~size.ok THEN [buf |-> buf, st |-> "ValueError", body |-> body, nread |-> nread]
    ELSE IF size.val = 0 THEN [buf |-> buf, st |-> "ok", body |-> body, nread |-> nread]
    ELSE ChunkData(peer, body, nread, Read(buf, peer, size.val))

\* lines 134-142, l being what response.readline() gave
ChunkSizeLine(peer, body, nread, l) ==
    IF l.st # "ok" THEN [buf |-> l.buf, st |-> l.st, body |-> body, nread |-> nread]
    ELSE IF ~DecodeOk(l.data)
    THEN [buf |-> l.buf, st |-> "UnicodeDecodeError", body |-> body, nread |-> nread]
    ELSE ChunkSize(peer, body, nread, PyInt(Strip(Decode(l.data)), 16), l.buf)

\* HttpClient._read_chunked_body: the loop, entered with the body decoded so
\* far and the number of body bytes read so far
ReadChunkedFrom(buf, peer, body, nread) ==
    ChunkSizeLine(peer, body, nread, ReadLine(buf, peer))

\* HttpClient._read_chunked_body
ReadChunkedBody(buf, peer) == ReadChunkedFrom(buf, peer, <<>>, 0)

\* line 125, r being what response.read(length) gave
LengthData(r) ==
    [buf |-> r.buf, st |-> r.st, body |-> DecodeReplace(r.data), nread |-> Len(r.data)]

\* lines 124-125, length being int(headers["content-length"])
LengthBody(buf, peer, length) ==
    IF ~length.ok THEN [buf |-> buf, st |-> "ValueError", body |-> <<>>, nread |-> 0]
    ELSE LengthData(Read(buf, peer, length.val))

\* lines 120-128 with a response without framing read to the end of input
ReadBodyToEof(buf, peer, headers) ==
    IF <<"transfer-encoding">> \in DOMAIN headers
    THEN ReadChunkedBody(buf, peer)
    ELSE IF <<"content-length">> \in DOMAIN headers
    THEN LengthBody(buf, peer, PyInt(headers[<<"content-length">>], 10))
    ELSE LengthData(Read(buf, peer, -1))

\* lines 120-128 with content-length looked up before transfer-encoding
ReadBodyLengthFirst(buf, peer, headers) ==
    IF <<"content-length">> \in DOMAIN headers
    THEN LengthBody(buf, peer, PyInt(headers[<<"content-length">>], 10))
    ELSE IF <<"transfer-encoding">> \in DOMAIN headers
    THEN ReadChunkedBody(buf, peer)
    ELSE [buf |-> buf, st |-> "ValueError", body |-> <<>>, nread |-> 0]

\* HttpClient._read_body
ReadBody(buf, peer, headers) ==
    IF <<"transfer-encoding">> \in DOMAIN headers
    THEN ReadChunkedBody(buf, peer)
    ELSE IF <<"content-length">> \in DOMAIN headers
    THEN LengthBody(buf, peer, PyInt(headers[<<"content-length">>], 10))
    ELSE [buf |-> buf, st |-> "ValueError", body |-> <<>>, nread |-> 0]

----------------------------------------------------------------------------
(* class URL *)

\* line 4 with one scheme too many
SchemesWithFtp == {<<"http">>, <<"https">>, <<"file">>, <<"data">>, <<"ftp">>}

SUPPORTED_SCHEMES == {<<"http">>, <<"https">>, <<"file">>, <<"data">>}

SchemeSep == <<":", "/", "/">>              \* "://"
ViewSourcePrefix == <<"view-source", ":">>  \* 'view-source:'

NoScheme == <<"None">>      \* self.scheme = None
NoPort == -1                \* self.port = None

UrlError(kind) ==
    [ok |-> FALSE, err |-> kind, scheme |-> NoScheme, host |-> <<>>, port |-> NoPort,
     path |-> <<>>, is_view_source |-> FALSE]

\* line 62 with the default ports of the two schemes confused
DefaultPortAlways80(scheme) == 80

\* line 62
DefaultPort(scheme) == IF scheme = <<"https">> THEN 443 ELSE 80

\* lines 50-51: "/" not in url  =>  url = url + '/'
WithSlash(url) == IF ~Contains(url, <<"/">>) THEN url \o <<"/">> ELSE url

\* line 59: self.port = int(port)
ExplicitPort(scheme, vs, host, port, path) ==
    IF ~port.ok THEN UrlError("ValueError")
    ELSE [ok |-> TRUE, err |-> "", scheme |-> scheme, host |-> host, port |-> port.val,
          path |-> path, is_view_source |-> vs]

\* lines 57-62, the host part being hostport
HostPort(scheme, vs, hostport, h, path) ==
    IF Len(h) = 2 THEN ExplicitPort(scheme, vs, h[1], PyInt(h[2], 10), path)
    ELSE [ok |-> TRUE, err |-> "", scheme |-> scheme, host |-> hostport,
          port |-> DefaultPort(scheme), path |-> path, is_view_source |-> vs]

\* lines 53-62, hp being url.split("/", 1)
HostPortPath(scheme, vs, hp) ==
    HostPort(scheme, vs, hp[1], Split1(hp[1], <<":">>), <<"/">> \o hp[2])

\* lines 33-62, sp being the scheme and the remaining url of lines 14-29
AfterScheme(sp) ==
    IF sp.err # "" THEN UrlError(sp.err)
    ELSE IF sp.scheme \notin SUPPORTED_SCHEMES THEN UrlError("AssertionError")
    ELSE IF sp.scheme \in {<<"data">>, <<"file">>}
    THEN [ok |-> TRUE, err |-> "", scheme |-> sp.scheme, host |-> <<>>, port |-> NoPort,
          path |-> sp.url, is_view_source |-> sp.vs]
    ELSE HostPortPath(sp.scheme, sp.vs, Split1(WithSlash(sp.url), <<"/">>))

\* line 23: self.scheme, url = sliced_url.split("://", 1)
ViewSourceScheme(parts) ==
    IF Len(parts) # 2 THEN [err |-> "ValueError", scheme |-> NoScheme, url |-> <<>>,
                            vs |-> TRUE]
    ELSE [err |-> "", scheme |-> parts[1], url |-> parts[2], vs |-> TRUE]

\* lines 25-29: self.scheme, url = url.split("://", 1) if "://" in url
PlainScheme(parts) ==
    IF Len(parts) = 2 THEN [err |-> "", scheme |-> parts[1], url |-> parts[2],
                            vs |-> FALSE]
    ELSE [err |-> "", scheme |-> NoScheme, url |-> parts[1], vs |-> FALSE]

\* lines 14-29: the scheme, the view-source flag and the remaining url
SchemeOf(url) ==
    IF StartsWith(url, <<"data", ":">>)
    THEN [err |-> "", scheme |-> <<"data">>, url |-> url, vs |-> FALSE]
    ELSE IF StartsWith(url, <<"file", ":">>)
    THEN [err |-> "", scheme |-> <<"file">>, url |-> url, vs |-> FALSE]
    ELSE IF StartsWith(url, ViewSourcePrefix)
    THEN ViewSourceScheme(Split1(SubSeq(url, Len(ViewSourcePrefix) + 1, Len(url)), SchemeSep))
    ELSE PlainScheme(Split1(url, SchemeSep))

\* URL.__init__
URL(url) == AfterScheme(SchemeOf(url))

NotParsed == UrlError("")

----------------------------------------------------------------------------
(* The servers: what may arrive on a socket after a request was written *)

Header(name, value) == <<name, ":", " ">> \o value \o CRLF

RECURSIVE HeaderBlock(_)
HeaderBlock(hs) ==
    IF hs = <<>> THEN <<>> ELSE Header(hs[1][1], hs[1][2]) \o HeaderBlock(Tail(hs))

\* the bytes of a response: status line, header lines, empty line, payload
Wire(r) ==
    <<"HTTP/1.1", " ", r.status, " ", "OK">> \o CRLF
        \o HeaderBlock(r.headers) \o CRLF \o r.payload

\* "hi" as two chunks and the terminating zero-size chunk
ChunkedHi ==
    <<"1">> \o CRLF \o <<"h">> \o CRLF \o <<"1">> \o CRLF \o <<"i">> \o CRLF
        \o <<"0">> \o CRLF \o CRLF

HexDigits ==
    <<"0", "1", "2", "3", "4", "5", "6", "7", "8", "9", "a", "b", "c", "d", "e", "f">>

\* the size line of a chunk of n bytes: n in hexadecimal
RECURSIVE HexStr(_)
HexStr(n) ==
    IF n < 16 THEN <<HexDigits[n + 1]>>
    ELSE HexStr(n \div 16) \o <<HexDigits[(n % 16) + 1]>>

\* chunks c1..cn on the wire, each with its size line and its CR LF
RECURSIVE ChunksOf(_)
ChunksOf(chunks) ==
    IF chunks = <<>> THEN <<>>
    ELSE HexStr(Len(chunks[1])) \o CRLF \o chunks[1] \o CRLF \o ChunksOf(Tail(chunks))

\* a chunked body: the chunks, the zero-size chunk and the final CR LF
ChunkedOf(chunks) == ChunksOf(chunks) \o <<"0">> \o CRLF \o CRLF

\* the bytes c1..cn in order
RECURSIVE Concat(_)
Concat(chunks) == IF chunks = <<>> THEN <<>> ELSE chunks[1] \o Concat(Tail(chunks))

Response(status, headers, payload, body) ==
    [status |-> status, headers |-> headers, body |-> body, payload |-> payload]

Ok200 == Response("200", <<<<"Content-Length", <<"2">>>>>>, <<"h", "i">>, <<"h", "i">>)
Binary200 ==
    Response("200", <<<<"Content-Length", <<"2">>>>>>, <<"h", InvalidByte>>,
             <<"h", Replacement>>)
Chunked200 == Response("200", <<<<"Transfer-Encoding", <<"chunked">>>>>>, ChunkedHi, <<"h", "i">>)
Both200 ==
    Response("200", <<<<"Content-Length", <<"9">>>>, <<"Transfer-Encoding", <<"chunked">>>>>>,
             ChunkedHi, <<"h", "i">>)
Repeated200 ==
    Response("200", <<<<"content-length", <<"9">>>>, <<"Content-Length", <<"2">>>>>>,
             <<"h", "i">>, <<"h", "i">>)
NoFraming200 == Response("200", <<<<"Server", <<"s">>>>>>, <<"h", "i">>, <<"h", "i">>)
Encoded200 ==
    Response("200", <<<<"Content-Encoding", <<"gzip">>>>, <<"Content-Length", <<"2">>>>>>,
             <<"h", "i">>, <<"h", "i">>)
RedirectPath ==
    Response("302", <<<<"Location", <<"/", "new">>>>, <<"Content-Length", <<"0">>>>>>,
             <<>>, <<>>)
RedirectPathBody ==
    Response("302", <<<<"Location", <<"/", "new">>>>, <<"Content-Length", <<"1">>>>>>,
             <<"x">>, <<"x">>)
RedirectHost ==
    Response("301", <<<<"Location", <<"http", ":", "/", "/", "b.com", "/", "x">>>>,
                      <<"Content-Length", <<"0">>>>>>, <<>>, <<>>)
RedirectTls ==
    Response("302", <<<<"LOCATION", <<"https", ":", "/", "/", "a.com", "/">>>>,
                      <<"Content-Length", <<"0">>>>>>, <<>>, <<>>)
RedirectEncoded ==
    Response("302", <<<<"CONTENT-ENCODING", <<"gzip">>>>, <<"Location", <<"/", "new">>>>,
                      <<"Content-Length", <<"0">>>>>>, <<>>, <<>>)
RedirectNoLocation == Response("302", <<<<"Content-Length", <<"0">>>>>>, <<>>, <<>>)

Responses ==
    {Ok200, Binary200, Chunked200, Both200, Repeated200, NoFraming200, Encoded200,
     RedirectPath, RedirectPathBody, RedirectHost, RedirectTls, RedirectEncoded,
     RedirectNoLocation}

\* the complete responses the sites of LoadUrls answer with
SiteResponses == {Ok200, Chunked200, RedirectPathBody, RedirectHost, RedirectTls}

\* a 200 response whose body is the chunks c1..cn and whose text is their
\* concatenation as UTF-8
ChunkedResponse(chunks) ==
    Response("200", <<<<"Transfer-Encoding", <<"chunked">>>>>>, ChunkedOf(chunks),
             DecodeReplace(Concat(chunks)))

\* the chunks a server sends: text, a line end, a two-byte character whole and
\* in halves, an invalid byte, and a chunk of ten bytes (size line "a")
Chunks ==
    { <<"h">>, <<"i", "\n">>, <<LeadByte, ContByte>>, <<LeadByte>>, <<ContByte>>,
      <<InvalidByte>>, <<"h", "e", "l", "l", "o", " ", "t", "h", "e", "r">> }

ChunkLists == UNION {[1..n -> Chunks] : n \in 0..MaxChunks}

IsRedirectResponse(r) == r.status \in {"301", "302"}

HeaderNames(r) == {CasefoldUnit(r.headers[i][1]) : i \in 1..Len(r.headers)}

\* what the server does with the connection after its response
Peers == {"open", "eof"}

\* the url_string arguments of Browser.load
LoadUrls ==
    { <<"http", ":", "/", "/", "a.com", "/", "p1">>,
      <<"view-source", ":", "http", ":", "/", "/", "a.com", "/", "p2">>,
      <<"http", ":", "/", "/", "a.com", ":", "8", "1", "/", "p1">>,
      <<"http", ":", "/", "/", "b.com", "/", "x">>,
      <<"data", ":", "text">>,
      <<"ftp", ":", "/", "/", "a.com">> }

\* the arguments of URL(): an optional 'view-source:', an optional scheme
\* with ":" or "://", and up to MaxRest units of host, port and path
UrlUnits == {"a.com", ":", "/", "8"}

UrlPrefixes == {<<>>, ViewSourcePrefix}

UrlSchemes ==
    {<<>>, <<"http">>, <<"https">>, <<"ftp">>, <<"data">>, <<"file">>, <<"view-source">>}

UrlSeps == {<<>>, <<":">>, SchemeSep}

UrlRests == UNION {[1..n -> UrlUnits] : n \in 0..MaxRest}

UrlInputs ==
    {p \o sch \o sep \o r :
        p \in UrlPrefixes, sch \in UrlSchemes, sep \in UrlSeps, r \in UrlRests}

ReaderUrls ==
    { <<"http", ":", "/", "/", "a.com", "/", "p1">>,
      <<"https", ":", "/", "/", "a.com", ":", "8", "1">> }


----------------------------------------------------------------------------
(* class HttpClient: one invocation of fetch() *)

NoSocket == 0       \* self.socket = None, self.response = None

\* the depth of nested calls at which CPython raises RecursionError
\* (sys.getrecursionlimit(), which the program leaves at its default)
RecursionLimit == 1000

\* HttpClient.__init__, with the class attributes socket and response
HttpClient(url) == [url |-> url, socket |-> NoSocket, response |-> NoSocket]

\* HttpClient._create_socket, and the address fetch() connects it to
CreateSocket(url) ==
    [peer |-> "open", host |-> url.host, port |-> url.port,
     tls |-> (url.scheme = <<"https">>), state |-> "unconnected", inbuf |-> <<>>]

\* HttpClient._build_request
BuildRequest(url) ==
    [line |-> <<"GET", " ">> \o url.path \o <<" ", "HTTP/1.1">>, Host |-> url.host,
     Connection |-> "keep-alive"]

\* lines 187-191: the URL string a redirect leads to
RedirectTarget(url, location) ==
    IF StartsWith(location, <<"/">>)
    THEN url.scheme \o SchemeSep \o url.host \o location
    ELSE location

Failed(err, stage, buf, nread, status, headers) ==
    [buf |-> buf, status |-> status, headers |-> headers, body |-> <<>>,
     nread |-> nread, kind |-> "error", err |-> err, url |-> NotParsed, stage |-> stage]

\* lines 198-201, body being what _read_body gave
Returning(url, status, headers, body) ==
    IF body.st # "ok" THEN Failed(body.st, "body", body.buf, body.nread, status, headers)
    ELSE [buf |-> body.buf, status |-> status, headers |-> headers, body |-> body.body,
          nread |-> body.nread, kind |-> "ok", err |-> "", url |-> url, stage |-> "body"]

\* lines 195-196, target being URL(redirect_url)
Redirecting(status, hd, target) ==
    IF ~target.ok THEN Failed(target.err, "redirect", hd.buf, 0, status, hd.headers)
    ELSE [buf |-> hd.buf, status |-> status, headers |-> hd.headers, body |-> <<>>,
          nread |-> 0, kind |-> "redirect", err |-> "", url |-> target,
          stage |-> "redirect"]

\* lines 185-201 without the assertion of line 183
AfterHeadersUnchecked(url, peer, status, hd) ==
    IF hd.st # "ok" THEN Failed(hd.st, "headers", hd.buf, 0, status, hd.headers)
    ELSE IF status \in {<<"301">>, <<"302">>}
    THEN IF <<"location">> \notin DOMAIN hd.headers
         THEN Failed("AttributeError", "redirect", hd.buf, 0, status, hd.headers)
         ELSE Redirecting(status, hd, URL(RedirectTarget(url, hd.headers[<<"location">>])))
    ELSE Returning(url, status, hd.headers, ReadBody(hd.buf, peer, hd.headers))

\* lines 183-201, hd being what _parse_headers gave
AfterHeaders(url, peer, status, hd) ==
    IF hd.st # "ok" THEN Failed(hd.st, "headers", hd.buf, 0, status, hd.headers)
    ELSE IF <<"content-encoding">> \in DOMAIN hd.headers
    THEN Failed("AssertionError", "assert", hd.buf, 0, status, hd.headers)
    ELSE IF status \in {<<"301">>, <<"302">>}
    THEN IF <<"location">> \notin DOMAIN hd.headers
         THEN Failed("AttributeError", "redirect", hd.buf, 0, status, hd.headers)
         ELSE Redirecting(status, hd, URL(RedirectTarget(url, hd.headers[<<"location">>])))
    ELSE Returning(url, status, hd.headers, ReadBody(hd.buf, peer, hd.headers))

\* lines 176-201, sl being what _parse_status_line gave
AfterStatusLine(url, peer, sl) ==
    IF sl.st # "ok" THEN Failed(sl.st, "status", sl.buf, 0, <<>>, NoHeaders)
    ELSE AfterHeaders(url, peer, sl.status, ParseHeaders(sl.buf, peer))

\* lines 168-201 of fetch(): read one response from the stream and return
\* the body, raise, or set self.url for the recursive call
Respond(url, buf, peer) == AfterStatusLine(url, peer, ParseStatusLine(buf, peer))

----------------------------------------------------------------------------
(* class Browser *)

\* key = f"{url.host}:{url.port}"
Key(url) == url.host \o <<":">> \o DecStr(url.port)

\* lines 294-298 without the lookup: every load gets a new client
GetClientAlwaysNew(cl, url, key) == SetItem(cl, key, HttpClient(url))

\* lines 294-298, key being the key of url
GetClientAt(cl, url, key) ==
    IF key \notin DOMAIN cl
    THEN SetItem(cl, key, HttpClient(url))
    ELSE [cl EXCEPT ![key].url = url]

\* Browser._get_client
GetClient(cl, url) == GetClientAt(cl, url, Key(url))

\* the instances of Browser: the one line 329 constructs, and a second one
MainBrowser == 1
Browsers == {MainBrowser, 2}

\* line 295 as instance b runs it: who stored the client of a key
Stored(cr, key, b) == IF key \in DOMAIN cr THEN cr ELSE SetItem(cr, key, b)

----------------------------------------------------------------------------
(* State *)

NoResponse == Response("", <<>>, <<>>, <<>>)

NoOutcome == [body |-> <<>>, kind |-> "none", err |-> "", stage |-> ""]
Returned(body) == [body |-> body, kind |-> "ok", err |-> "", stage |-> ""]
Raised(err, stage) == [body |-> <<>>, kind |-> "error", err |-> err, stage |-> stage]

\* hist: what the latest invocation of fetch() did
\*   opened   the socket it created and called connect() on, if any
\*   wrote    it wrote its request;  sock, url: the socket written to and
\*            self.url when the request was built
\*   stale    bytes of earlier responses still unread in the socket when the
\*            request was written
\*   resp, complete  the response the server answered with, and whether it
\*            sent all of it
\*   kind, stage, status, headers, nread  what Respond made of the stream
\*   first    the invocation was the one Browser.load made
\*   prev, prevUrl  the response and self.url of the invocation that
\*            redirected to this one
NoHist ==
    [status |-> <<>>, headers |-> NoHeaders, nread |-> 0, kind |-> "none",
     url |-> NotParsed, stage |-> "", opened |-> NoSocket, wrote |-> FALSE,
     sock |-> NoSocket, stale |-> 0, resp |-> NoResponse, complete |-> FALSE,
     first |-> TRUE, prev |-> NoResponse, prevUrl |-> NotParsed]

\* hist at the entry of fetch(): called by load, or by the invocation h that
\* followed a redirect
Entered(h) ==
    IF h.kind = "redirect"
    THEN [NoHist EXCEPT !.first = FALSE, !.prev = h.resp, !.prevUrl = h.url]
    ELSE NoHist

Init ==
    /\ raw = <<>>
    /\ parsed = NotParsed
    /\ clients = NoHeaders
    /\ net = <<>>
    /\ pc = "idle"
    /\ cur = <<>>
    /\ hops = 0
    /\ outcome = NoOutcome
    /\ hist = NoHist
    /\ requests = 0
    /\ browser = MainBrowser
    /\ creator = NoHeaders

\* lines 304-316, url being URL(url_string): a data or file URL, or one URL()
\* rejects, ends the load; any other gets its client, whose fetch() is called
Dispatch(url) ==
    IF ~url.ok
    THEN /\ outcome' = Raised(url.err, "url")
         /\ UNCHANGED <<clients, net, pc, cur, hops, creator>>
    ELSE IF url.scheme \in {<<"data">>, <<"file">>}
    THEN /\ outcome' = NoOutcome
         /\ UNCHANGED <<clients, net, pc, cur, hops, creator>>
    ELSE /\ clients' = GetClient(clients, url)
         /\ pc' = "fetch"
         /\ cur' = Key(url)
         /\ hops' = 0
         /\ outcome' = NoOutcome
         /\ creator' = Stored(creator, Key(url), browser')
         /\ UNCHANGED net

\* Browser.load up to the call client.fetch()
Load(b, s) ==
    /\ pc = "idle"
    /\ requests < MaxRequests
    /\ browser' = b
    /\ raw' = s
    /\ parsed' = URL(s)
    /\ hist' = NoHist
    /\ Dispatch(parsed')
    /\ UNCHANGED requests

\* lines 149-154 fail: the socket is stored in self.socket, connect() raises
FetchConnectFails ==
    /\ pc = "fetch"
    /\ clients[cur].socket = NoSocket
    /\ net' = Append(net, CreateSocket(clients[cur].url))
    /\ clients' = [clients EXCEPT ![cur].socket = Len(net) + 1]
    /\ hist' = [Entered(hist) EXCEPT !.url = clients[cur].url, !.opened = Len(net) + 1,
                                     !.kind = "error", !.stage = "connect"]
    /\ outcome' = Raised("ConnectionError", "connect")
    /\ pc' = "idle"
    /\ requests' = requests + 1
    /\ UNCHANGED <<raw, parsed, cur, hops, browser, creator>>

\* lines 149-154: the sockets once fetch() has its socket, self.socket or a
\* new connected one
Connected(c, n) ==
    IF c.socket = NoSocket
    THEN Append(n, [CreateSocket(c.url) EXCEPT !.state = "open"])
    ELSE n

\* self.socket after lines 149-154
SocketOf(c, n) == IF c.socket = NoSocket THEN Len(n) + 1 ELSE c.socket

\* the socket lines 149-154 created, if any
Opened(c, n) == IF c.socket = NoSocket THEN Len(n) + 1 ELSE NoSocket

\* lines 149-166: socket.send() raises (the socket never connected, or the
\* connection is broken)
FetchSendFails ==
    /\ pc = "fetch"
    /\ net' = Connected(clients[cur], net)
    /\ clients' = [clients EXCEPT ![cur].socket = SocketOf(clients[cur], net)]
    /\ hist' = [Entered(hist) EXCEPT !.url = clients[cur].url,
                                     !.opened = Opened(clients[cur], net),
                                     !.sock = SocketOf(clients[cur], net),
                                     !.kind = "error", !.stage = "send"]
    /\ outcome' = Raised("OSError", "send")
    /\ pc' = "idle"
    /\ requests' = requests + 1
    /\ UNCHANGED <<raw, parsed, cur, hops, browser, creator>>

\* what the socket holds once the server has answered the request: the unread
\* rest of earlier responses and the response less its last cut bytes; a
\* server that closed the connection sends nothing more
Arrived(sock, wire, cut) ==
    IF sock.peer = "open" THEN sock.inbuf \o SubSeq(wire, 1, Len(wire) - cut)
    ELSE sock.inbuf

\* the state of the connection once the server has answered
PeerAfter(sock, peer) == IF sock.peer = "open" THEN peer ELSE sock.peer

\* line 168: the reader made by makefile() is dropped by the next fetch(),
\* with the bytes it had taken from the socket beyond those it parsed: none
\* of the rest buf of the stream, or all that had arrived
Unread(buf) == {buf, <<>>}

\* line 196: the recursive call, fetch() being hops deep already, raises
\* RecursionError when the interpreter's stack is full (self.url is set by
\* then); res is what lines 168-195 made of the response
Recursing(res) ==
    IF res.kind = "redirect" /\ hops + 1 >= RecursionLimit
    THEN [res EXCEPT !.kind = "error", !.err = "RecursionError"]
    ELSE res

\* lines 166-201 on socket t of the sockets n, the server answering with
\* resp less its last cut bytes and leaving the connection in state peer
Exchange(c, t, n, sock, resp, cut, peer, res) ==
    /\ \E rest \in Unread(res.buf) :
          net' = [n EXCEPT ![t].inbuf = rest, ![t].peer = PeerAfter(sock, peer)]
    /\ clients' = [clients EXCEPT
                     ![cur].socket = t,
                     ![cur].response = t,
                     ![cur].url = IF res.url.ok THEN res.url ELSE c.url]
    /\ hist' = [Entered(hist) EXCEPT
                  !.opened = Opened(c, net), !.wrote = TRUE, !.sock = t, !.url = c.url,
                  !.stale = Len(sock.inbuf),
                  !.resp = IF sock.peer = "open" THEN resp ELSE NoResponse,
                  !.complete = (sock.peer = "open" /\ cut = 0),
                  !.kind = res.kind, !.stage = res.stage, !.status = res.status,
                  !.headers = res.headers, !.nread = res.nread]
    /\ pc' = IF res.kind = "redirect" THEN "fetch" ELSE "idle"
    /\ hops' = IF res.kind = "redirect" THEN hops + 1 ELSE hops
    /\ outcome' = CASE res.kind = "redirect" -> outcome
                    [] res.kind = "ok" -> Returned(res.body)
                    [] OTHER -> Raised(res.err, res.stage)

\* lines 149-201 on socket t of the sockets n once fetch() has its socket
Exchanging(c, t, n, sock, resp, cut, peer) ==
    /\ sock.state = "open"
    /\ sock.peer # "open" => (resp = Ok200 /\ cut = 0 /\ peer = "open")
    /\ Exchange(c, t, n, sock, resp, cut, peer,
                Recursing(Respond(c.url, Arrived(sock, Wire(resp), cut), PeerAfter(sock, peer))))

\* fetch(): connect if there is no socket, send the request, and read the
\* response the server answers with (all but its last cut bytes, after which
\* the server leaves the connection in state peer)
FetchExchange(resp, cut, peer) ==
    /\ pc = "fetch"
    /\ Exchanging(clients[cur], SocketOf(clients[cur], net), Connected(clients[cur], net),
                  Connected(clients[cur], net)[SocketOf(clients[cur], net)],
                  resp, cut, peer)
    /\ requests' = requests + 1
    /\ UNCHANGED <<raw, parsed, cur, browser, creator>>

\* lines 205-206 without lines 207-208: the socket is closed and kept
CloseSocketKept(k) ==
    /\ pc = "idle"
    /\ k \in DOMAIN clients
    /\ IF clients[k].socket # NoSocket
       THEN /\ net' = [net EXCEPT ![clients[k].socket].state = "closed"]
            /\ UNCHANGED clients
       ELSE UNCHANGED <<clients, net>>
    /\ outcome' = NoOutcome
    /\ hist' = NoHist
    /\ raw' = <<>>
    /\ parsed' = NotParsed
    /\ cur' = k
    /\ hops' = 0
    /\ UNCHANGED <<pc, requests, browser, creator>>

\* HttpClient.close on the cached client of key k
Close(k) ==
    /\ pc = "idle"
    /\ k \in DOMAIN clients
    /\ IF clients[k].socket # NoSocket
       THEN /\ net' = [net EXCEPT ![clients[k].socket].state = "closed"]
            /\ clients' = [clients EXCEPT ![k].socket = NoSocket,
                                          ![k].response = NoSocket]
       ELSE UNCHANGED <<clients, net>>
    /\ outcome' = NoOutcome
    /\ hist' = NoHist
    /\ raw' = <<>>
    /\ parsed' = NotParsed
    /\ cur' = k
    /\ hops' = 0
    /\ UNCHANGED <<pc, requests, browser, creator>>

\* the run has requests left for the request a redirect leads to
Budget(resp) == IsRedirectResponse(resp) => requests + 1 < MaxRequests

\* A browser loading the pages of LoadUrls from sites that answer every
\* request completely and keep the connection open
Next ==
    \/ \E s \in LoadUrls : Load(MainBrowser, s)
    \/ FetchConnectFails
    \/ FetchSendFails
    \/ \E resp \in SiteResponses : Budget(resp) /\ FetchExchange(resp, 0, "open")
    \/ \E k \in DOMAIN clients : Close(k)

Spec == Init /\ [][Next]_vars

\* URL() applied to one input
InitURL ==
    /\ raw \in UrlInputs
    /\ parsed = NotParsed
    /\ clients = NoHeaders
    /\ net = <<>>
    /\ pc = "url"
    /\ cur = <<>>
    /\ hops = 0
    /\ outcome = NoOutcome
    /\ hist = NoHist
    /\ requests = 0
    /\ browser = MainBrowser
    /\ creator = NoHeaders

\* line 302: url = URL(url_string)
Construct ==
    /\ pc = "url"
    /\ parsed' = URL(raw)
    /\ pc' = "idle"
    /\ UNCHANGED <<raw, clients, net, cur, hops, outcome, hist, requests, browser, creator>>

SpecURL == InitURL /\ [][Construct]_vars

\* One load of a page whose server may answer with any of Responses, cut
\* short or not: the state Load leaves when it calls client.fetch()
InitReader ==
    \E s \in ReaderUrls :
        /\ raw = s
        /\ parsed = URL(s)
        /\ clients = GetClient(NoHeaders, URL(s))
        /\ net = <<>>
        /\ pc = "fetch"
        /\ cur = Key(URL(s))
        /\ hops = 0
        /\ outcome = NoOutcome
        /\ hist = NoHist
        /\ requests = 0
        /\ browser = MainBrowser
        /\ creator = Stored(NoHeaders, Key(URL(s)), MainBrowser)

NextReader ==
    \/ FetchConnectFails
    \/ FetchSendFails
    \/ \E resp \in Responses, cut \in 0..MaxCut, peer \in Peers :
          Budget(resp) /\ FetchExchange(resp, cut, peer)

SpecReader == InitReader /\ [][NextReader]_vars

\* One load of a page whose server answers with a complete chunked response
NextChunks == \E chunks \in ChunkLists : FetchExchange(ChunkedResponse(chunks), 0, "open")

SpecChunks == InitReader /\ [][NextChunks]_vars

\* Two Browser instances loading pages of two hosts
PageUrls ==
    { <<"http", ":", "/", "/", "a.com", "/", "p1">>,
      <<"http", ":", "/", "/", "a.com", "/", "p2">>,
      <<"http", ":", "/", "/", "b.com", "/", "x">> }

NextBrowsers ==
    \/ \E b \in Browsers, s \in PageUrls : Load(b, s)
    \/ \E resp \in {Ok200, RedirectPath} : Budget(resp) /\ FetchExchange(resp, 0, "open")

SpecBrowsers == Init /\ [][NextBrowsers]_vars

\* One load of a page whose server answers each request with a redirect to a
\* path of the same host, for as long as it likes, and then with a page
NextRedirects == \E resp \in {RedirectPath, Ok200} : FetchExchange(resp, 0, "open")

SpecRedirects == InitReader /\ [][NextRedirects]_vars

----------------------------------------------------------------------------
(* URL parsing: properties of SpecURL *)

HttpSchemes == {<<"http">>, <<"https">>}
UrlSchemeSet == {<<"http">>, <<"https">>, <<"file">>, <<"data">>}

\* what an accepted http(s) input starts with: the prefix, the scheme, "://"
UrlHead(u) ==
    (IF u.is_view_source THEN ViewSourcePrefix ELSE <<>>) \o u.scheme \o SchemeSep

\* what precedes the first "/" of b, all of b when it has none
BeforeSlash(b) == IF Contains(b, <<"/">>) THEN SubSeq(b, 1, Find(b, <<"/">>) - 1) ELSE b

\* u is the reading of head ++ auth ++ tail the claim describes, auth being
\* host or host:port and tail what follows it
ReadsAs(u, auth, tail) ==
    /\ ~Contains(u.host, <<":">>)
    /\ u.path = (IF tail = <<>> THEN <<"/">> ELSE tail)
    /\ Head(u.path) = "/"
    /\ IF StartsWith(auth, u.host \o <<":">>)
       THEN PyInt(SubSeq(auth, Len(u.host) + 2, Len(auth)), 10) = [ok |-> TRUE,
                                                                   val |-> u.port]
       ELSE auth = u.host /\ u.port = (IF u.scheme = <<"http">> THEN 80 ELSE 443)

ReadsBody(u, body) ==
    ReadsAs(u, BeforeSlash(body), SubSeq(body, Len(BeforeSlash(body)) + 1, Len(body)))

\* C9: for every http or https input URL() accepts, the port is the explicit
\* port when the host is followed by ':port' and otherwise 80 for http and
\* 443 for https, the host does not contain the port, and the path starts
\* with '/' and is exactly '/' when nothing follows the host.
C9_PortHostPath ==
    (pc = "idle" /\ parsed.ok /\ parsed.scheme \in HttpSchemes) =>
        /\ StartsWith(raw, UrlHead(parsed))
        /\ ReadsBody(parsed, SubSeq(raw, Len(UrlHead(parsed)) + 1, Len(raw)))

\* an https URL with an explicit port and nothing after it
C9_Witness ==
    /\ pc = "idle"
    /\ raw = <<"https", ":", "/", "/", "a.com", ":", "8", "8">>
    /\ parsed.ok /\ parsed.host = <<"a.com">> /\ parsed.port = 88 /\ parsed.path = <<"/">>

\* the input without a leading 'view-source:'
Unprefixed(s) ==
    IF StartsWith(s, ViewSourcePrefix) THEN SubSeq(s, Len(ViewSourcePrefix) + 1, Len(s)) ELSE s

\* the scheme an input names: what precedes its first ":", if it has one
NamedScheme(t) ==
    IF Contains(t, <<":">>) THEN SubSeq(t, 1, Find(t, <<":">>) - 1) ELSE NoScheme

\* C10: URL() fails for every input whose scheme is absent or not one of
\* http, https, file, data, with or without a leading 'view-source:', and
\* every URL it constructs has one of these four schemes.
C10_SchemeChecked ==
    pc = "idle" =>
        /\ NamedScheme(Unprefixed(raw)) \notin UrlSchemeSet => ~parsed.ok
        /\ parsed.ok => parsed.scheme \in UrlSchemeSet

\* 'view-source:ftp://a.com' is rejected by the assertion of line 33
C10_Witness ==
    /\ pc = "idle"
    /\ raw = <<"view-source", ":", "ftp", ":", "/", "/", "a.com">>
    /\ ~parsed.ok /\ parsed.err = "AssertionError"

----------------------------------------------------------------------------
(* The connection cache: properties of Spec *)

\* the host:port a socket was connected to, as a cache key
Endpoint(sock) == sock.host \o <<":">> \o DecStr(sock.port)

\* a second socket to a host:port exists only once close() closed the first
OnePerKey ==
    \A t1, t2 \in DOMAIN net :
        (t1 < t2 /\ Endpoint(net[t1]) = Endpoint(net[t2])) => net[t1].state = "closed"

\* a request goes to the cached socket of the client, which was connected to
\* the host:port of its key
OnCachedSocket ==
    hist.wrote => (hist.sock = clients[cur].socket /\ Endpoint(net[hist.sock]) = cur)

\* after a fetch that returned, the connection is cached and not closed
KeptAlive ==
    (pc = "idle" /\ outcome.kind = "ok") =>
        (clients[cur].socket # NoSocket /\ net[clients[cur].socket].state = "open")

\* a load of a key that is not cached makes a client without a socket; a
\* fetch() on a client without a socket connects a new one to the key's
\* host:port; a fetch() on a client with a socket connects nothing and uses it
ConnectsOnce ==
    /\ (pc = "idle" /\ pc' = "fetch" /\ cur' \notin DOMAIN clients) =>
            clients'[cur'].socket = NoSocket
    /\ (pc = "fetch" /\ clients[cur].socket = NoSocket) =>
            /\ Len(net') = Len(net) + 1
            /\ hist'.opened = Len(net')
            /\ clients'[cur].socket = Len(net')
            /\ Endpoint(net'[Len(net')]) = cur
    /\ (pc = "fetch" /\ clients[cur].socket # NoSocket) =>
            /\ Len(net') = Len(net)
            /\ hist'.opened = NoSocket
            /\ clients'[cur].socket = clients[cur].socket

\* C1: without close(), at most one transport is ever opened per host:port
\* key: the first load of a key opens a connection, every later load of the
\* key sends its request on that connection, the connection is open and
\* cached after each successful fetch, and a load of a key that is not
\* cached opens a new connection.
C1_OneConnectionPerKey ==
    /\ [](OnePerKey /\ OnCachedSocket /\ KeptAlive)
    /\ [][ConnectsOnce]_vars

\* the second of two loads of a.com:80 returned a body over the one socket
\* the first had opened
C1_Witness ==
    /\ pc = "idle" /\ outcome.kind = "ok" /\ requests = 2 /\ hist.first
    /\ hist.wrote /\ hist.opened = NoSocket /\ Len(net) = 1 /\ hist.sock = 1
    /\ parsed.is_view_source

----------------------------------------------------------------------------
(* Redirects and the socket of a client: properties of Spec *)

RedirectStatuses == {<<"301">>, <<"302">>}

\* the invocation of fetch() followed the redirect of response prev whose
\* i-th header is a Location that starts with "/"
FollowsPath(i) ==
    /\ hist.wrote /\ ~hist.first /\ IsRedirectResponse(hist.prev)
    /\ CasefoldUnit(hist.prev.headers[i][1]) = "location"
    /\ StartsWith(hist.prev.headers[i][2], <<"/">>)

\* C2: after a 301 or 302 response whose Location starts with '/', the next
\* request asks for that Location as its path on the same host; no byte of
\* the redirect response's body is still in the stream when the following
\* response is parsed; and the value fetch returns is exactly the body of the
\* response that was not a redirect.
C2_RedirectBodyDiscarded ==
    /\ \A i \in 1..Len(hist.prev.headers) :
           FollowsPath(i) =>
               /\ BuildRequest(hist.url).line =
                      <<"GET", " ">> \o hist.prev.headers[i][2] \o <<" ", "HTTP/1.1">>
               /\ BuildRequest(hist.url).Host = hist.prevUrl.host
               /\ hist.stale = 0
    /\ (pc = "idle" /\ outcome.kind = "ok" /\ ~hist.first) =>
           (hist.stale = 0 /\ outcome.body = hist.resp.body)

\* C3: every request written to a socket names, in its Host header and as
\* the port of its URL, the host and port the socket was connected to; in
\* particular the request that follows a redirect to another host:port goes
\* to a socket connected to that host:port.
C3_RequestOnItsConnection ==
    hist.wrote =>
        /\ net[hist.sock].host = BuildRequest(hist.url).Host
        /\ net[hist.sock].port = hist.url.port

\* C4: a request for an https URL is written to a TLS-wrapped socket and a
\* request for an http URL to a plain one, on every hop of a redirect chain
\* and on every reuse of a cached connection.
C4_TlsIffHttps ==
    hist.wrote => (net[hist.sock].tls <=> hist.url.scheme = <<"https">>)

\* C8: when fetch() has raised (connect, send, receive, timeout or parse
\* error), the client cached for the host:port is gone or holds no socket,
\* so that the next load of the host:port connects anew.
C8_FailedConnectionEvicted ==
    (pc = "idle" /\ outcome.kind = "error" /\ outcome.stage # "url") =>
        (cur \notin DOMAIN clients \/ clients[cur].socket = NoSocket)

----------------------------------------------------------------------------
(* Reading one response: properties of SpecReader *)

FramingHeaders == {"transfer-encoding", "content-length"}

\* the header block of the response was parsed to its empty line
HeadersParsed == hist.wrote /\ hist.stage \in {"assert", "redirect", "body"}

\* the response the server sent is the first thing in the stream
FreshResponse == hist.wrote /\ hist.stale = 0 /\ hist.resp # NoResponse

\* C5: a response that is not a redirect and whose header block holds neither
\* transfer-encoding nor content-length makes fetch() raise without reading
\* a byte of the body: once the header block is parsed the error is the
\* ValueError of _read_body, not a read that waits for the end of input.
C5_MissingFramingFails ==
    /\ (FreshResponse /\ ~IsRedirectResponse(hist.resp)
            /\ HeaderNames(hist.resp) \cap FramingHeaders = {}) =>
           (pc = "idle" /\ outcome.kind = "error" /\ hist.nread = 0)
    /\ (HeadersParsed /\ hist.status \notin RedirectStatuses
            /\ <<"content-encoding">> \notin DOMAIN hist.headers
            /\ <<"transfer-encoding">> \notin DOMAIN hist.headers
            /\ <<"content-length">> \notin DOMAIN hist.headers) =>
           (pc = "idle" /\ outcome = Raised("ValueError", "body") /\ hist.nread = 0)

\* a complete 200 response without framing, the server closing the
\* connection after it: fetch() raised and read nothing of the body
C5_Witness ==
    /\ pc = "idle" /\ hist.resp = NoFraming200 /\ hist.complete
    /\ net[hist.sock].peer = "eof"
    /\ outcome = Raised("ValueError", "body") /\ hist.nread = 0

\* C6: a response whose header block holds content-encoding, in any casing,
\* makes fetch() raise before it reads a byte of the body, whatever its
\* status, framing and body: once the header block is parsed the assertion of
\* line 183 fails, and a 301 or 302 is not followed.
C6_ContentEncodingFails ==
    /\ (FreshResponse /\ "content-encoding" \in HeaderNames(hist.resp)) =>
           /\ pc = "idle" /\ outcome.kind = "error" /\ hist.nread = 0
           /\ hist.complete => outcome = Raised("AssertionError", "assert")
    /\ (HeadersParsed /\ <<"content-encoding">> \in DOMAIN hist.headers) =>
           (pc = "idle" /\ outcome = Raised("AssertionError", "assert") /\ hist.nread = 0)

\* a 302 with CONTENT-ENCODING and a Location was not followed
C6_Witness ==
    /\ pc = "idle" /\ hist.resp = RedirectEncoded /\ hist.complete /\ hist.stale = 0
    /\ hist.status = <<"302">> /\ <<"location">> \in DOMAIN hist.headers
    /\ outcome = Raised("AssertionError", "assert") /\ hist.nread = 0 /\ requests = 1

\* C7: when fetch() returns, the body is exactly what the framing describes:
\* with content-length N, N bytes were read; with chunked encoding, the
\* declared bytes of every chunk; a stream that ends before the declared
\* bytes never gives a shorter body as a success.
C7_ExactFraming ==
    (pc = "idle" /\ outcome.kind = "ok") =>
        /\ (<<"transfer-encoding">> \notin DOMAIN hist.headers) =>
               hist.nread = PyInt(hist.headers[<<"content-length">>], 10).val
        /\ hist.stale = 0 => outcome.body = hist.resp.body

----------------------------------------------------------------------------
(* data: and view-source: inputs: properties of SpecURL *)

DataMarker == <<"data", ":">>       \* 'data:'

\* s without its first n units
Drop(s, n) == SubSeq(s, n + 1, Len(s))

\* C11: for every input that begins with 'data:', with or without a leading
\* 'view-source:', URL() gives scheme data, an empty host, no port and as
\* payload the input without the 'view-source:' prefix and the 'data:'
\* marker; for a 'view-source:' input the flag is set and the rest is parsed
\* exactly as the same string without the prefix.
C11_DataAndViewSource ==
    pc = "idle" =>
        /\ StartsWith(Unprefixed(raw), DataMarker) =>
              /\ parsed.ok /\ parsed.scheme = <<"data">>
              /\ parsed.host = <<>> /\ parsed.port = NoPort
              /\ parsed.path = Drop(Unprefixed(raw), Len(DataMarker))
        /\ StartsWith(raw, ViewSourcePrefix) =>
              /\ parsed.ok = URL(Unprefixed(raw)).ok
              /\ parsed.ok => parsed = [URL(Unprefixed(raw)) EXCEPT !.is_view_source = TRUE]

----------------------------------------------------------------------------
(* Chunked bodies: properties of SpecChunks *)

\* C12: for a chunked body of chunks c1..cn and a zero-size chunk, fetch()
\* returns the concatenation c1..cn in order, as text: each size line is read
\* as hexadecimal, exactly that many bytes are read, the CR LF after the chunk
\* is consumed, and reading stops at the first size line equal to zero.
C12_ChunksConcatenated ==
    (pc = "idle" /\ FreshResponse /\ hist.complete
            /\ "transfer-encoding" \in HeaderNames(hist.resp)) =>
        /\ outcome = Returned(hist.resp.body)
        /\ net[hist.sock].inbuf \in {<<>>, CRLF}

----------------------------------------------------------------------------
(* The header mapping: properties of SpecReader *)

\* the i-th header line of response r is the last one with its name, in any
\* casing
LastOccurrence(r, i) ==
    \A j \in (i + 1)..Len(r.headers) :
        CasefoldUnit(r.headers[j][1]) # CasefoldUnit(r.headers[i][1])

\* C13: the parsed headers are keyed by the lowercase form of each header
\* name of the block, whatever casing the server used, and the value stored
\* under a name is the trimmed value of its last occurrence in the block.
C13_HeadersCaseFoldedLastWins ==
    (HeadersParsed /\ FreshResponse) =>
        /\ DOMAIN hist.headers = {<<n>> : n \in HeaderNames(hist.resp)}
        /\ \A i \in 1..Len(hist.resp.headers) :
              LastOccurrence(hist.resp, i) =>
                  hist.headers[<<CasefoldUnit(hist.resp.headers[i][1])>>] =
                      Strip(hist.resp.headers[i][2])

\* 'content-length: 9' followed by 'Content-Length: 2': the body read is the
\* two bytes the last occurrence declares
C13_Witness ==
    /\ pc = "idle" /\ hist.resp = Repeated200 /\ hist.complete /\ hist.stale = 0
    /\ hist.headers[<<"content-length">>] = <<"2">>
    /\ outcome = Returned(<<"h", "i">>)

----------------------------------------------------------------------------
(* The stream between two fetches: properties of Spec *)

\* C14: after a fetch() that returned, no byte of the response it read is
\* left unread in the stream of the connection (in particular not the CR LF
\* that follows the zero-size chunk), so that the next fetch() on the cached
\* connection starts at the status line of its own response and returns that
\* response's body.
C14_StreamAtNextResponse ==
    /\ (pc = "idle" /\ outcome.kind = "ok") => net[hist.sock].inbuf = <<>>
    /\ (hist.wrote /\ hist.first /\ hist.opened = NoSocket) => hist.stale = 0
    /\ (pc = "idle" /\ hist.wrote /\ hist.first /\ hist.opened = NoSocket /\ hist.complete) =>
           outcome = Returned(hist.resp.body)

----------------------------------------------------------------------------
(* The choice of the body reader: properties of SpecReader *)

\* fetch() ended as the body reader that gave r makes it end: it returned the
\* body r holds or raised r's error, having read the body bytes r counts
ReadBy(r) ==
    /\ hist.nread = r.nread
    /\ outcome = (IF r.st = "ok" THEN Returned(r.body) ELSE Raised(r.st, "body"))

\* C15: when the parsed headers hold transfer-encoding the body is read by
\* the chunked reader, also when content-length is present; content-length is
\* used only when transfer-encoding is absent; the result is that of the one
\* reader chosen, never of both.
C15_FramingPriority ==
    (pc = "idle" /\ hist.stage = "body" /\ FreshResponse /\ hist.complete) =>
        /\ <<"transfer-encoding">> \in DOMAIN hist.headers =>
              ReadBy(ReadChunkedBody(hist.resp.payload, net[hist.sock].peer))
        /\ (<<"transfer-encoding">> \notin DOMAIN hist.headers
                /\ <<"content-length">> \in DOMAIN hist.headers) =>
              ReadBy(LengthBody(hist.resp.payload, net[hist.sock].peer,
                                PyInt(hist.headers[<<"content-length">>], 10)))

\* a chunked response that also declares Content-Length: 9: the two chunk
\* bytes are the body, not the first nine bytes of the chunked payload
C15_Witness ==
    /\ pc = "idle" /\ hist.resp = Both200 /\ hist.complete /\ hist.stale = 0
    /\ DOMAIN hist.headers = {<<"content-length">>, <<"transfer-encoding">>}
    /\ outcome = Returned(<<"h", "i">>) /\ hist.nread = 2

----------------------------------------------------------------------------
(* The target of a redirect: properties of Spec *)

\* the invocation of fetch() followed the redirect of response prev whose
\* i-th header is a Location that does not start with "/"
FollowsUrl(i) ==
    /\ hist.wrote /\ ~hist.first /\ IsRedirectResponse(hist.prev)
    /\ CasefoldUnit(hist.prev.headers[i][1]) = "location"
    /\ ~StartsWith(hist.prev.headers[i][2], <<"/">>)

\* C16: after a 301 or 302 whose Location starts with '/', the URL of the
\* next request has the scheme, the host and the port of the current URL (an
\* explicit port included) and the Location as its path; a Location that does
\* not start with '/' is parsed as a URL of its own.
C16_RelativeRedirectKeepsOrigin ==
    \A i \in 1..Len(hist.prev.headers) :
        /\ FollowsPath(i) =>
              /\ hist.url.scheme = hist.prevUrl.scheme
              /\ hist.url.host = hist.prevUrl.host
              /\ hist.url.port = hist.prevUrl.port
              /\ hist.url.path = hist.prev.headers[i][2]
        /\ FollowsUrl(i) => hist.url = URL(hist.prev.headers[i][2])

----------------------------------------------------------------------------
(* Chains of redirects: properties of SpecRedirects *)

\* the response the server sent is a 301 or 302 with a Location and without
\* content-encoding, received whole at the start of the stream
WellFormedRedirect ==
    /\ FreshResponse /\ hist.complete /\ IsRedirectResponse(hist.resp)
    /\ "location" \in HeaderNames(hist.resp)
    /\ "content-encoding" \notin HeaderNames(hist.resp)

\* C17: fetch() follows redirects without a bound on their number: after n
\* well-formed 301/302 responses and one response that is no redirect it has
\* sent n + 1 requests and returns the last body, for every n; and as long
\* as the server answers with well-formed redirects it neither returns nor
\* fails.
C17_RedirectsUnbounded ==
    /\ WellFormedRedirect => (pc = "fetch" /\ outcome = NoOutcome)
    /\ (pc = "idle" /\ FreshResponse /\ hist.complete /\ ~IsRedirectResponse(hist.resp)) =>
           (outcome = Returned(hist.resp.body) /\ requests = hops + 1)

----------------------------------------------------------------------------
(* The cache of each Browser instance: properties of SpecBrowsers *)

\* C18: each Browser instance has a connection cache of its own: the client
\* a load() looks up, whose URL it sets and on whose connection its request
\* is written, was stored by a load() of the same instance.
C18_CachePerBrowser ==
    (pc = "fetch" \/ hist.wrote) => creator[cur] = browser

----------------------------------------------------------------------------
(* close(): properties of Spec *)

\* close() on the client of key cur was the last call made
JustClosed == pc = "idle" /\ raw = <<>> /\ cur # <<>>

\* after close() the client holds neither socket nor reader, and every
\* socket it had opened is closed
ClosedAndForgotten ==
    JustClosed =>
        /\ clients[cur].socket = NoSocket /\ clients[cur].response = NoSocket
        /\ \A t \in DOMAIN net : Endpoint(net[t]) = cur => net[t].state = "closed"

\* a request is written to a socket that is connected and not closed
NeverOnClosed == hist.wrote => net[hist.sock].state = "open"

\* close() on a client without a socket changes neither the client nor any
\* socket
CloseIdempotent ==
    (pc = "idle" /\ raw' = <<>> /\ cur' # <<>> /\ clients[cur'].socket = NoSocket) =>
        UNCHANGED <<clients, net>>

\* fetch() on a client without a socket connects a new one to the host and
\* port of the client's URL, and writes its request to no other
ReconnectsAfterClose ==
    (pc = "fetch" /\ clients[cur].socket = NoSocket) =>
        /\ Len(net') = Len(net) + 1
        /\ net'[Len(net')].host = clients[cur].url.host
        /\ net'[Len(net')].port = clients[cur].url.port
        /\ clients'[cur].socket = Len(net')
        /\ hist'.wrote => hist'.sock = Len(net')

\* C19: after close() the client's socket is closed and the client holds
\* neither socket nor reader; close() on a closed client changes nothing; the
\* next fetch() of the client connects a new socket to the host:port of its
\* current URL before it sends; and no request is written to a socket that
\* close() closed.
C19_CloseThenReconnect ==
    /\ [](ClosedAndForgotten /\ NeverOnClosed)
    /\ [][CloseIdempotent /\ ReconnectsAfterClose]_vars

\* a page returned over a second socket to b.com:80, the first having been
\* closed by close()
C19_Witness ==
    /\ pc = "idle" /\ outcome.kind = "ok" /\ hist.wrote
    /\ Len(net) = 2 /\ net[1].state = "closed" /\ Endpoint(net[1]) = Endpoint(net[2])
    /\ hist.opened = 2 /\ hist.sock = 2 /\ clients[cur].socket = 2

----------------------------------------------------------------------------
(* The socket field of a client: properties of Spec *)

\* C20: a client whose socket field is set holds a socket on which connect()
\* succeeded: when connect() fails in fetch() the client is not left with a
\* socket, so no later fetch() sends on a socket that never connected.
C20_SocketSetMeansConnected ==
    /\ \A k \in DOMAIN clients :
           clients[k].socket # NoSocket => net[clients[k].socket].state # "unconnected"
    /\ (hist.stage = "send" /\ hist.sock # NoSocket) => net[hist.sock].state # "unconnected"

====
